---- MODULE Spec2Model ----
(***************************************************************************)
(* Cable-topology tracer of the NetBox MCP server (src/src/tools/cables.py) *)
(* modelled as a state machine: the inventory (cables over a fixed table   *)
(* of terminations), one trace_devices_connection request advancing by     *)
(* half rounds, and one trace_from_interface request advancing by calls of *)
(* _build_tree_node.                                                       *)
(***************************************************************************)
EXTENDS Integers, Sequences, FiniteSets, TLC

\* Python's None
None == "None"
\* None in a cable_id slot: falsy like 0, and no cable has id 0
NoId == 0

\* result slot of a request that has not returned yet
NoResult == [pending |-> TRUE]

(***************************************************************************)
(* Bounds                                                                  *)
(***************************************************************************)
\* largest number of cables installed at once
MaxCables == 2
\* largest explicit max_iterations argument tried (besides the default)
MaxIterations == 2
\* largest explicit max_depth argument tried (besides the default)
MaxDepth == 3

\* default of max_iterations
DefaultMaxIterations == 10
\* default of max_depth
DefaultMaxDepth == 10

(***************************************************************************)
(* The inventory: devices, termination records, cables                     *)
(***************************************************************************)
Devices == {"X", "Y", "Z", "PP1", "PP2"}
\* a device name that the inventory does not hold
Ghost == "Ghost"
DeviceNames == Devices \cup {Ghost}

\* termination records in the order the inventory lists them
AllTerms == << "X_eth0", "X_eth1", "Y_eth0", "Y_eth1", "Z_eth0",
               "PP1_front1", "PP1_rear1", "PP2_front1", "PP2_rear1", "CT1" >>
TermKeys == {AllTerms[i] : i \in 1..Len(AllTerms)}

Interface(d, n) ==
    [kind |-> "interface", attrs |-> {"device", "name", "cable"},
     device |-> d, name |-> n, rear_port |-> None, front_ports |-> <<>>]
FrontPort(d, n, rp) ==
    [kind |-> "front", attrs |-> {"device", "name", "cable", "rear_port"},
     device |-> d, name |-> n, rear_port |-> rp, front_ports |-> <<>>]
RearPort(d, n, fps) ==
    [kind |-> "rear", attrs |-> {"device", "name", "cable", "front_ports"},
     device |-> d, name |-> n, rear_port |-> None, front_ports |-> fps]

\* a record that cannot be read: every access to it raises
Unreadable_(n) ==
    [kind |-> "unreadable", attrs |-> {},
     device |-> None, name |-> n, rear_port |-> None, front_ports |-> <<>>]

Rec(t) ==
    CASE t = "X_eth0"     -> Interface("X", "eth0")
      [] t = "X_eth1"     -> Interface("X", "eth1")
      [] t = "Y_eth0"     -> Interface("Y", "eth0")
      [] t = "Y_eth1"     -> Interface("Y", "eth1")
      [] t = "Z_eth0"     -> Interface("Z", "eth0")
      [] t = "PP1_front1" -> FrontPort("PP1", "front1", "PP1_rear1")
      [] t = "PP1_rear1"  -> RearPort("PP1", "rear1", <<"PP1_front1">>)
      [] t = "PP2_front1" -> FrontPort("PP2", "front1", "PP2_rear1")
      [] t = "PP2_rear1"  -> RearPort("PP2", "rear1", <<"PP2_front1">>)
      [] t = "CT1"        -> Unreadable_("ct1")

\* processing the record raises
Unreadable(t) == Rec(t).kind = "unreadable"

\* hasattr(termination, a)
HasAttr(t, a) == a \in Rec(t).attrs

Cable(i, a, b) == [id |-> i, a_terminations |-> a, b_terminations |-> b]

\* the cables an inventory may hold
CableCatalog ==
    { Cable(1, <<"X_eth0">>, <<"Y_eth0">>),
      Cable(2, <<"X_eth0">>, <<"PP1_front1">>),
      Cable(3, <<"PP1_rear1">>, <<"Y_eth0">>),
      Cable(4, <<"X_eth1">>, <<"Y_eth1">>),
      Cable(5, <<"X_eth0">>, <<"Y_eth0", "Z_eth0">>),
      Cable(6, <<"X_eth1">>, <<"PP1_front1", "Z_eth0">>),
      Cable(7, <<>>, <<"X_eth1", "Y_eth1">>),
      Cable(8, <<"PP1_rear1">>, <<"PP2_rear1">>),
      Cable(9, <<"X_eth0">>, <<"PP1_front1", "PP2_front1">>),
      Cable(10, <<"Z_eth0">>, <<"CT1">>) }

Range(s) == {s[i] : i \in 1..Len(s)}
TermsOf(c) == Range(c.a_terminations) \cup Range(c.b_terminations)

\* a termination belongs to at most one cable
Inventories ==
    { inv \in SUBSET CableCatalog :
        /\ Cardinality(inv) <= MaxCables
        /\ \A c1, c2 \in inv : c1 # c2 => TermsOf(c1) \cap TermsOf(c2) = {} }

VARIABLES
    nb,                 \* TRUE iff the connection handle was established
    cables,             \* the cables of the inventory
    failing,            \* device names whose lookups raise (time out)
    tr_pc,              \* position of the trace_devices_connection request
    source_device, target_device, max_iterations,
    iteration,
    source_frontier, target_frontier,
    source_visited, target_visited,
    source_paths, target_paths,
    new_source_devices,
    listings,           \* number of cabled-interface listings issued
    result,             \* what trace_devices_connection returned
    prev,               \* the finished request before a swapped re-run
    tree_pc,            \* position of the trace_from_interface request
    device_name, interface_name, max_depth,
    visited_terminations,
    stack,              \* the active calls of _build_tree_node, innermost last
    calls,              \* number of calls of _build_tree_node made so far
    tree_result,        \* what trace_from_interface returned
    gc_pc,              \* position of the get_cable request
    cable_id,
    gc_raised,          \* TRUE iff the cable lookup of the request raised
    cable_result,       \* what get_cable returned
    lookups,            \* number of inventory lookups the running request issued
    other,              \* a second request, running concurrently with the first
    refresh_pc,         \* position of the startup refresh of the cached data
    resource_files,     \* the cached JSON file of each resource type
    last_update,        \* the day written in resources/.last_update
    now,                \* the day of the start
    fetch_errors,       \* resource types whose fetch raised at this start
    update_results      \* what update_all_resources returned

invVars == << nb, cables, failing >>
traceVars == << tr_pc, source_device, target_device, max_iterations, iteration,
                source_frontier, target_frontier, source_visited, target_visited,
                source_paths, target_paths, new_source_devices, listings,
                result, prev >>
treeVars == << tree_pc, device_name, interface_name, max_depth,
               visited_terminations, stack, calls, tree_result >>
cableVars == << gc_pc, cable_id, gc_raised, cable_result >>
refreshVars == << refresh_pc, resource_files, last_update, now, fetch_errors,
                  update_results >>
vars == << invVars, traceVars, treeVars, cableVars, lookups, other, refreshVars >>

(***************************************************************************)
(* Python list helpers                                                     *)
(***************************************************************************)
RECURSIVE Concat(_)
Concat(ss) == IF ss = <<>> THEN <<>> ELSE Head(ss) \o Concat(Tail(ss))

Reversed(s) == [i \in 1..Len(s) |-> s[Len(s) + 1 - i]]

\* d[k] = v on a dict
Put(d, k, v) == [x \in DOMAIN d \cup {k} |-> IF x = k THEN v ELSE d[x]]

EmptyDict == [x \in {} |-> <<>>]

(***************************************************************************)
(* Cable graph accessors                                                   *)
(***************************************************************************)
\* termination.cable is not None
HasCable(t) == \E c \in cables : t \in TermsOf(c)
\* termination.cable, for a termination that has one
CableOf(t) == CHOOSE c \in cables : t \in TermsOf(c)

DeviceOf(t) == IF HasAttr(t, "device") THEN Rec(t).device ELSE None
NameOf(t) == IF HasAttr(t, "name") THEN Rec(t).name ELSE None

_get_connected_terminations(termination) ==
    IF termination = None \/ ~HasCable(termination)
    THEN <<>>
    ELSE LET cable == CableOf(termination)
         IN  IF cable.a_terminations # <<>>
             THEN SelectSeq(cable.a_terminations \o cable.b_terminations,
                            LAMBDA term : term # termination)
             ELSE <<>>

\* a mutation of PairedPorts: only the front-to-rear pairing is followed
PairedPorts_FrontOnly(term) ==
    IF HasAttr(term, "rear_port") /\ Rec(term).rear_port # None
    THEN << Rec(term).rear_port >>
    ELSE <<>>

\* the patch-panel pairing followed from a connected termination
PairedPorts(term) ==
    IF HasAttr(term, "rear_port") /\ Rec(term).rear_port # None
    THEN << Rec(term).rear_port >>
    ELSE IF HasAttr(term, "front_ports") /\ Rec(term).front_ports # <<>>
         THEN Rec(term).front_ports
         ELSE <<>>

_get_next_terminations(termination) ==
    IF termination = None
    THEN <<>>
    ELSE IF HasCable(termination)
         THEN LET connected == _get_connected_terminations(termination)
              IN  Concat([i \in 1..Len(connected) |->
                            <<connected[i]>> \o PairedPorts(connected[i])])
         ELSE <<>>

(***************************************************************************)
(* Bidirectional path tracer                                               *)
(***************************************************************************)
\* nb.dcim.interfaces.filter(device=dname, cabled=True)
CabledInterfaces(dname) ==
    SelectSeq(AllTerms, LAMBDA t : /\ Rec(t).kind = "interface"
                                  /\ Rec(t).device = dname
                                  /\ HasCable(t))

\* the (interface, next_term) pairs the loops of _expand_frontier visit
NextOfInterface(interface) ==
    LET connected_terms == _get_connected_terminations(interface)
        nexts == Concat([i \in 1..Len(connected_terms) |->
                           _get_next_terminations(connected_terms[i])])
    IN  [i \in 1..Len(nexts) |-> [interface |-> interface, next_term |-> nexts[i]]]

Discoveries(dname) ==
    LET interfaces == CabledInterfaces(dname)
    IN  Concat([i \in 1..Len(interfaces) |-> NextOfInterface(interfaces[i])])

PathHop(dname, interface, next_term) ==
    [device |-> dname,
     interface |-> Rec(interface).name,
     cable_id |-> CableOf(interface).id,
     next_device |-> Rec(next_term).device,
     next_interface |-> NameOf(next_term)]

\* the innermost loop body of _expand_frontier over the pairs ds
RECURSIVE Discover(_, _, _)
Discover(st, dname, ds) ==
    IF ds = <<>> THEN st
    ELSE LET next_term == Head(ds).next_term
             next_device == DeviceOf(next_term)
         IN  IF next_device # None /\ next_device \notin DOMAIN st.visited
             THEN Discover(
                    [st EXCEPT
                       !.paths = Put(@, next_device,
                                     Append(st.paths[dname],
                                            PathHop(dname, Head(ds).interface, next_term))),
                       !.new_devices = Append(@, next_device)],
                    dname, Tail(ds))
             ELSE Discover(st, dname, Tail(ds))

\* the loops over the interfaces of dname reach a record that raises
DiscoveryRaises(dname) ==
    /\ \E c \in cables : \E t \in TermsOf(c) : Unreadable(t)
    /\ \E interface \in Range(CabledInterfaces(dname)) :
            \E term \in Range(_get_connected_terminations(interface)) :
                \/ Unreadable(term)
                \/ \E c \in Range(_get_connected_terminations(term)) : Unreadable(c)

\* st = [visited, paths, new_devices, listings, lookups, raised]
RECURSIVE ExpandLoop(_, _)
ExpandLoop(st, devices) ==
    IF devices = <<>> \/ st.raised THEN st
    ELSE LET dname == Head(devices)
         IN  IF dname \in DOMAIN st.visited
             THEN ExpandLoop(st, Tail(devices))
             ELSE IF dname \in failing
             THEN [st EXCEPT !.lookups = @ + 1, !.raised = TRUE]
             ELSE IF dname \notin Devices
             THEN ExpandLoop([st EXCEPT !.lookups = @ + 1], Tail(devices))
             ELSE IF DiscoveryRaises(dname)
             THEN [st EXCEPT !.visited = Put(@, dname, st.paths[dname]),
                             !.listings = @ + 1,
                             !.lookups = @ + 2,
                             !.raised = TRUE]
             ELSE ExpandLoop(
                    Discover([st EXCEPT
                                !.visited = Put(@, dname, st.paths[dname]),
                                !.listings = @ + 1,
                                !.lookups = @ + 2],
                             dname, Discoveries(dname)),
                    Tail(devices))

\* a mutation of _expand_frontier: the caller's visited dict is not updated
_expand_frontier_NoMark(devices, visited, path_to_origin) ==
    [ExpandLoop([visited |-> visited, paths |-> path_to_origin,
                 new_devices |-> <<>>, listings |-> 0, lookups |-> 0,
                 raised |-> FALSE],
                devices) EXCEPT !.visited = visited]

_expand_frontier(devices, visited, path_to_origin) ==
    ExpandLoop([visited |-> visited, paths |-> path_to_origin,
                new_devices |-> <<>>, listings |-> 0, lookups |-> 0,
                 raised |-> FALSE],
               devices)

_find_intersection(source_visited_, target_visited_) ==
    LET hits == SelectSeq(source_visited_, LAMBDA device : device \in DOMAIN target_visited_)
    IN  IF hits = <<>> THEN None ELSE Head(hits)

\* a KeyError when the meeting device is missing from either dict
BuildRaises(meeting_device, sv, tv) ==
    meeting_device \notin DOMAIN sv \/ meeting_device \notin DOMAIN tv

_build_complete_path(meeting_device, sv, tv) ==
    LET source_path == sv[meeting_device]
        target_path == tv[meeting_device]
        target_path_reversed == Reversed(target_path)
        complete_path == source_path \o
            (IF target_path_reversed = <<>> THEN <<>> ELSE Tail(target_path_reversed))
    IN  [path |-> complete_path,
         meeting_point |-> [device |-> meeting_device,
                            source_hops |-> Len(source_path),
                            target_hops |-> Len(target_path)],
         total_hops |-> Len(source_path) + Len(target_path) - 1]

\* a mutation of ErrUnavailable: the handle is used before it is tested
ErrUnavailable_Late == [error |-> <<"Failed to get cable: ", "'NoneType' object has no attribute 'dcim'">>]

ErrUnavailable == [error |-> <<"NetBox connection not available">>]
\* a mutation of ErrTrace: the handler lets the exception through
ErrTrace_Reraise(e) == [exception |-> e]

ErrTrace(e) == [error |-> <<"Failed to trace connection: ", e>>]

\* the return in the intersection branch, KeyError included
FoundResult(meeting_device, sv, tv) ==
    IF BuildRaises(meeting_device, sv, tv)
    THEN ErrTrace(meeting_device)
    ELSE _build_complete_path(meeting_device, sv, tv)

\* a mutation of EndpointError: only the source endpoint is checked
EndpointError_SourceOnly(s, t) ==
    IF s \notin Devices
    THEN [error |-> <<"Source device '", s, "' not found">>]
    ELSE NoResult

\* the not-found returns for the two resolved endpoints, NoResult when both resolve
EndpointError(s, t) ==
    IF s \notin Devices
    THEN [error |-> <<"Source device '", s, "' not found">>]
    ELSE IF t \notin Devices
    THEN [error |-> <<"Target device '", t, "' not found">>]
    ELSE NoResult

\* a mutation of Exhausted: one empty new frontier ends the loop
Exhausted_Either(new_source, new_target) ==
    new_source = <<>> \/ new_target = <<>>

\* the break at the end of a round: neither side discovered a device
Exhausted(new_source, new_target) ==
    new_source = <<>> /\ new_target = <<>>

MaxIterValues == (0 .. MaxIterations) \cup {DefaultMaxIterations}

\* trace_devices_connection up to the first round
StartTrace(s, t, m) ==
    /\ source_device' = s
    /\ target_device' = t
    /\ max_iterations' = m
    /\ iteration' = 0
    /\ source_frontier' = <<s>>
    /\ target_frontier' = <<t>>
    /\ source_visited' = EmptyDict
    /\ target_visited' = EmptyDict
    /\ source_paths' = Put(EmptyDict, s, <<>>)
    /\ target_paths' = Put(EmptyDict, t, <<>>)
    /\ new_source_devices' = <<>>
    /\ listings' = 0
    /\ IF ~nb
       THEN tr_pc' = "done" /\ result' = ErrUnavailable /\ lookups' = 0
       ELSE IF s \in failing \/ t \in failing
       THEN /\ tr_pc' = "done" /\ result' = ErrTrace("lookup failed")
            /\ lookups' = IF s \in failing THEN 1 ELSE 2
       ELSE IF EndpointError(s, t) # NoResult
       THEN tr_pc' = "done" /\ result' = EndpointError(s, t) /\ lookups' = 2
       ELSE tr_pc' = "round" /\ result' = NoResult /\ lookups' = 2

TraceDevicesConnection ==
    /\ refresh_pc = "start"
    /\ tr_pc = "idle"
    /\ tree_pc = "idle"
    /\ gc_pc = "idle"
    /\ \E s \in DeviceNames, t \in DeviceNames, m \in MaxIterValues : StartTrace(s, t, m)
    /\ UNCHANGED << refreshVars, invVars, cableVars, other, treeVars, prev >>

\* the same request with source and target swapped, on the same inventory
TraceSwapped ==
    /\ tr_pc = "done"
    /\ prev = NoResult
    /\ prev' = [source |-> source_device, target |-> target_device, result |-> result]
    /\ StartTrace(target_device, source_device, max_iterations)
    /\ UNCHANGED << refreshVars, invVars, cableVars, other, treeVars >>

\* first half of a round: expand the source frontier, check the intersection
SourceStep ==
    /\ tr_pc = "round"
    /\ iteration < max_iterations
    /\ LET ex == _expand_frontier(source_frontier, source_visited, source_paths)
           intersection == _find_intersection(ex.new_devices, target_visited)
       IN  /\ source_visited' = ex.visited
           /\ source_paths' = ex.paths
           /\ new_source_devices' = ex.new_devices
           /\ listings' = listings + ex.listings
           /\ lookups' = lookups + ex.lookups
           /\ IF ex.raised
              THEN tr_pc' = "done" /\ result' = ErrTrace("lookup failed")
              ELSE IF intersection # None
              THEN tr_pc' = "done"
                   /\ result' = FoundResult(intersection, ex.visited, target_visited)
              ELSE tr_pc' = "target" /\ result' = result
    /\ UNCHANGED << refreshVars, invVars, cableVars, other, treeVars, source_device, target_device, max_iterations, iteration,
                    source_frontier, target_frontier, target_visited, target_paths, prev >>

\* second half of a round: expand the target frontier, check, advance
TargetStep ==
    /\ tr_pc = "target"
    /\ LET ex == _expand_frontier(target_frontier, target_visited, target_paths)
           intersection == _find_intersection(ex.new_devices, source_visited)
       IN  /\ target_visited' = ex.visited
           /\ target_paths' = ex.paths
           /\ listings' = listings + ex.listings
           /\ lookups' = lookups + ex.lookups
           /\ IF ex.raised
              THEN /\ tr_pc' = "done" /\ result' = ErrTrace("lookup failed")
                   /\ UNCHANGED << source_frontier, target_frontier, iteration >>
              ELSE IF intersection # None
              THEN /\ tr_pc' = "done"
                   /\ result' = FoundResult(intersection, source_visited, ex.visited)
                   /\ UNCHANGED << source_frontier, target_frontier, iteration >>
              ELSE /\ source_frontier' = new_source_devices
                   /\ target_frontier' = ex.new_devices
                   /\ iteration' = iteration + 1
                   /\ result' = result
                   /\ tr_pc' = IF Exhausted(new_source_devices, ex.new_devices)
                               THEN "exhausted" ELSE "round"
    /\ UNCHANGED << refreshVars, invVars, cableVars, other, treeVars, source_device, target_device, max_iterations,
                    source_visited, source_paths, new_source_devices, prev >>

\* the return after the loop
NoPath ==
    /\ \/ tr_pc = "exhausted"
       \/ tr_pc = "round" /\ iteration >= max_iterations
    /\ tr_pc' = "done"
    /\ result' = [error |-> <<"No path found between '", source_device, "' and '",
                             target_device, "' after ", max_iterations, " iterations">>,
                  source_devices_explored |-> Cardinality(DOMAIN source_visited),
                  target_devices_explored |-> Cardinality(DOMAIN target_visited)]
    /\ UNCHANGED << refreshVars, invVars, cableVars, other, treeVars, source_device, target_device, max_iterations, iteration,
                    source_frontier, target_frontier, source_visited, target_visited,
                    source_paths, target_paths, new_source_devices, listings, prev,
                    lookups >>


(***************************************************************************)
(* Topology tree tracer                                                    *)
(***************************************************************************)
\* the f-string identity of a termination
TermId(termination) ==
    (IF HasAttr(termination, "device") /\ Rec(termination).device # None
     THEN Rec(termination).device ELSE "unknown")
    \o "_" \o
    (IF HasAttr(termination, "name") THEN Rec(termination).name ELSE "unknown")

\* the node dict of _build_tree_node before its children are built
NewNode(termination, current_depth) ==
    [device |-> IF HasAttr(termination, "device") /\ Rec(termination).device # None
                THEN Rec(termination).device ELSE None,
     interface |-> NameOf(termination),
     type |-> IF HasAttr(termination, "device") THEN "interface" ELSE "port",
     cable_id |-> IF HasCable(termination) THEN CableOf(termination).id ELSE NoId,
     depth |-> current_depth,
     children |-> <<>>]

\* a mutation of ChildCalls: the front/rear pairing is not followed
ChildCalls_CableOnly(termination) ==
    IF HasCable(termination)
    THEN _get_connected_terminations(termination)
    ELSE <<>>

\* the terminations _build_tree_node recurses into, in call order
ChildCalls(termination) ==
    IF HasCable(termination)
    THEN LET connected_terms == _get_connected_terminations(termination)
         IN  Concat([i \in 1..Len(connected_terms) |->
                       LET term == connected_terms[i]
                       IN  <<term>> \o
                           (IF HasAttr(term, "rear_port") /\ Rec(term).rear_port # None
                            THEN << Rec(term).rear_port >>
                            ELSE IF HasAttr(term, "front_ports") /\ Rec(term).front_ports # <<>>
                                 THEN Rec(term).front_ports
                                 ELSE <<>>)])
    ELSE <<>>

\* a mutation of Pruned: the visited set is not consulted
Pruned_DepthOnly(termination, visited, current_depth, max_depth_) ==
    current_depth >= max_depth_

\* _build_tree_node returns None without building a node
Pruned(termination, visited, current_depth, max_depth_) ==
    \/ current_depth >= max_depth_
    \/ TermId(termination) \in visited

\* a mutation of ChildDepth: the recursion passes its own depth on
ChildDepth_Same(current_depth) == current_depth

\* the depth _build_tree_node gives its recursive calls, for the terminations
\* on the cable and for their paired ports alike
ChildDepth(current_depth) == current_depth + 1

Frame(termination, current_depth) ==
    [termination |-> termination,
     node |-> NewNode(termination, current_depth),
     todo |-> ChildCalls(termination)]

RECURSIVE count_nodes(_)
\* a mutation of count_nodes: the walk stops below the root's children
count_nodes_Shallow(node) ==
    1 + Len(node.children)

count_nodes(node) ==
    LET RECURSIVE Sum(_)
        Sum(cs) == IF cs = <<>> THEN 0 ELSE count_nodes(Head(cs)) + Sum(Tail(cs))
    IN  1 + Sum(node.children)

RECURSIVE count_cables(_)
count_cables(node) ==
    LET RECURSIVE Union(_)
        Union(cs) == IF cs = <<>> THEN {} ELSE count_cables(Head(cs)) \cup Union(Tail(cs))
    IN  (IF node.cable_id # NoId THEN {node.cable_id} ELSE {}) \cup Union(node.children)

ErrTree(e) == [error |-> <<"Failed to trace from interface: ", e>>]

\* a mutation of UncabledResult: the missing cable is reported as an error
UncabledResult_AsError(d, n) ==
    [error |-> <<"Interface '", n, "' on device '", d, "' has no cable connected">>]

\* the return for a start interface without a cable
UncabledResult(d, n) ==
    [message |-> <<"Interface '", n, "' on device '", d, "' has no cable connected">>,
     tree |-> [device |-> d, interface |-> n, type |-> "interface",
               cable_id |-> NoId, children |-> <<>>]]

\* nb.dcim.interfaces.get(device=device_name, name=interface_name)
FindInterface(d, n) ==
    { t \in TermKeys : Rec(t).kind = "interface" /\ Rec(t).device = d /\ Rec(t).name = n }

InterfaceNames == {"eth0", "eth1", "eth9"}
MaxDepthValues == (0 .. MaxDepth) \cup {DefaultMaxDepth}

\* a mutation of FreshVisited: the set is a default argument, one for all calls
FreshVisited_Shared(in_use) == in_use

\* the visited set a top-level call of _build_tree_node starts with, whatever
\* set another request has in use
FreshVisited(in_use) == {}

\* trace_from_interface up to the first call of _build_tree_node
StartTree(d, n, m) ==
    /\ device_name' = d
    /\ interface_name' = n
    /\ max_depth' = m
    /\ lookups' = IF nb THEN 1 ELSE 0
    /\ IF ~nb
       THEN /\ tree_pc' = "done" /\ tree_result' = ErrUnavailable
            /\ UNCHANGED << visited_terminations, stack, calls >>
       ELSE IF d \in failing
       THEN /\ tree_pc' = "done" /\ tree_result' = ErrTree("lookup failed")
            /\ UNCHANGED << visited_terminations, stack, calls >>
       ELSE IF FindInterface(d, n) = {}
       THEN /\ tree_pc' = "done"
            /\ tree_result' = [error |-> <<"Interface '", n, "' not found on device '", d, "'">>]
            /\ UNCHANGED << visited_terminations, stack, calls >>
       ELSE LET interface == CHOOSE t \in FindInterface(d, n) : TRUE
                fresh == FreshVisited(IF other.kind = "tree" THEN other.visited ELSE {})
            IN  IF ~HasCable(interface)
                THEN /\ tree_pc' = "done"
                     /\ tree_result' = UncabledResult(d, n)
                     /\ UNCHANGED << visited_terminations, stack, calls >>
                ELSE /\ calls' = 1
                     /\ IF Pruned(interface, fresh, 0, m)
                        THEN /\ tree_pc' = "done"
                             /\ tree_result' = ErrTree("'NoneType' object has no attribute 'get'")
                             /\ UNCHANGED << visited_terminations, stack >>
                        ELSE /\ tree_pc' = "building"
                             /\ tree_result' = NoResult
                             /\ visited_terminations' = fresh \cup {TermId(interface)}
                             /\ stack' = << Frame(interface, 0) >>

TraceFromInterface ==
    /\ refresh_pc = "start"
    /\ tree_pc = "idle"
    /\ tr_pc = "idle"
    /\ gc_pc = "idle"
    /\ \E d \in DeviceNames, n \in InterfaceNames, m \in MaxDepthValues : StartTree(d, n, m)
    /\ UNCHANGED << refreshVars, invVars, cableVars, other, traceVars >>

\* the innermost active call makes its next recursive call
BuildCall ==
    /\ tree_pc = "building"
    /\ stack[Len(stack)].todo # <<>>
    /\ LET top == stack[Len(stack)]
           term == Head(top.todo)
           rest == [stack EXCEPT ![Len(stack)].todo = Tail(top.todo)]
       IN  /\ calls' = calls + 1
           /\ IF Unreadable(term)
              THEN /\ tree_pc' = "done"
                   /\ tree_result' = ErrTree("record unreadable")
                   /\ stack' = <<>>
                   /\ UNCHANGED visited_terminations
              ELSE IF Pruned(term, visited_terminations, ChildDepth(top.node.depth), max_depth)
              THEN /\ stack' = rest
                   /\ UNCHANGED << visited_terminations, tree_pc, tree_result >>
              ELSE /\ visited_terminations' = visited_terminations \cup {TermId(term)}
                   /\ stack' = Append(rest, Frame(term, ChildDepth(top.node.depth)))
                   /\ UNCHANGED << tree_pc, tree_result >>
    /\ UNCHANGED << refreshVars, invVars, cableVars, other, traceVars, device_name, interface_name, max_depth,
                    lookups >>

\* the innermost active call returns its node to its caller's children
BuildReturn ==
    /\ tree_pc = "building"
    /\ Len(stack) > 1
    /\ stack[Len(stack)].todo = <<>>
    /\ LET node == stack[Len(stack)].node
           below == SubSeq(stack, 1, Len(stack) - 1)
       IN  stack' = [below EXCEPT ![Len(below)].node.children = Append(@, node)]
    /\ UNCHANGED << refreshVars, invVars, cableVars, other, traceVars, tree_pc, device_name, interface_name,
                    max_depth, visited_terminations, calls, tree_result, lookups >>

\* the outermost call returns the tree; the metrics are counted and returned
TreeFinish ==
    /\ tree_pc = "building"
    /\ Len(stack) = 1
    /\ stack[1].todo = <<>>
    /\ LET tree == stack[1].node
       IN  tree_result' =
             [tree |-> tree,
              metadata |-> [start_device |-> device_name,
                            start_interface |-> interface_name,
                            total_nodes |-> count_nodes(tree),
                            total_cables |-> Cardinality(count_cables(tree)),
                            max_depth |-> max_depth]]
    /\ tree_pc' = "done"
    /\ stack' = <<>>
    /\ UNCHANGED << refreshVars, invVars, cableVars, other, traceVars, device_name, interface_name, max_depth,
                    visited_terminations, calls, lookups >>

(***************************************************************************)
(* Cable lookup                                                            *)
(***************************************************************************)
\* the info dict of a termination, by the first attribute test that holds
_get_termination_info(termination) ==
    LET r == Rec(termination)
        cid == IF HasCable(termination) THEN CableOf(termination).id ELSE NoId
    IN  IF HasAttr(termination, "device") /\ r.device # None
        THEN [type |-> "interface",
              device |-> r.device,
              interface |-> NameOf(termination),
              cable_id |-> cid]
        ELSE IF HasAttr(termination, "rear_port")
        THEN [type |-> "front_port",
              device |-> None,
              port |-> NameOf(termination),
              rear_port |-> IF r.rear_port # None THEN Rec(r.rear_port).name ELSE None,
              cable_id |-> cid]
        ELSE IF HasAttr(termination, "front_ports")
        THEN [type |-> "rear_port",
              device |-> None,
              port |-> NameOf(termination),
              front_ports |-> [i \in 1..Len(r.front_ports) |-> Rec(r.front_ports[i]).name],
              cable_id |-> cid]
        ELSE [type |-> "unknown", name |-> termination, cable_id |-> cid]

ErrCable(e) == [error |-> <<"Failed to get cable: ", e>>]

\* the return of get_cable for a cable the lookup found
CableInfo(cable) ==
    LET terms == IF cable.a_terminations # <<>>
                 THEN cable.a_terminations \o cable.b_terminations
                 ELSE <<>>
    IN  IF \E i \in 1..Len(terms) : Unreadable(terms[i])
        THEN ErrCable("record unreadable")
        ELSE [cable_id |-> cable.id,
              cable_type |-> None,
              status |-> None,
              terminations |-> [i \in 1..Len(terms) |-> _get_termination_info(terms[i])]]

\* a mutation of CableNotFound: the message leaves the id out
CableNotFound_NoId(id) == [error |-> <<"Cable not found">>]

\* the return for an id the inventory has no cable for
CableNotFound(id) == [error |-> <<"Cable with ID ", id, " not found">>]

CableIds == { c.id : c \in CableCatalog }

\* get_cable, whole: the cable lookup answers, finds nothing, or raises
GetCable ==
    /\ refresh_pc = "start"
    /\ gc_pc = "idle"
    /\ tr_pc = "idle"
    /\ tree_pc = "idle"
    /\ gc_pc' = "done"
    /\ \E id \in CableIds, raises \in BOOLEAN :
        /\ raises => nb
        /\ cable_id' = id
        /\ gc_raised' = raises
        /\ lookups' = IF nb THEN 1 ELSE 0
        /\ cable_result' =
             IF ~nb THEN ErrUnavailable
             ELSE IF raises THEN ErrCable("lookup failed")
             ELSE IF \A c \in cables : c.id # id
             THEN CableNotFound(id)
             ELSE CableInfo(CHOOSE c \in cables : c.id = id)
    /\ UNCHANGED << refreshVars, invVars, traceVars, treeVars, other >>

(***************************************************************************)
(* A second request, alongside the first: every request keeps its search   *)
(* state in locals of its own call                                         *)
(***************************************************************************)
IdleRequest == [kind |-> "none", pc |-> "idle"]

\* the locals of a trace_from_interface call after its first lines
TreeStart(d, n, m, in_use) ==
    LET r == [kind |-> "tree", pc |-> "done",
              device_name |-> d, interface_name |-> n, max_depth |-> m,
              visited |-> {}, stack |-> <<>>, calls |-> 0, result |-> NoResult,
              began |-> "alone"]
    IN  IF ~nb THEN [r EXCEPT !.result = ErrUnavailable]
        ELSE IF d \in failing THEN [r EXCEPT !.result = ErrTree("lookup failed")]
        ELSE IF FindInterface(d, n) = {}
        THEN [r EXCEPT !.result =
                [error |-> <<"Interface '", n, "' not found on device '", d, "'">>]]
        ELSE LET interface == CHOOSE t \in FindInterface(d, n) : TRUE
                 fresh == FreshVisited(in_use)
             IN  IF ~HasCable(interface)
                 THEN [r EXCEPT !.result = UncabledResult(d, n)]
                 ELSE IF Pruned(interface, fresh, 0, m)
                 THEN [r EXCEPT !.calls = 1,
                                !.result = ErrTree("'NoneType' object has no attribute 'get'")]
                 ELSE [r EXCEPT !.pc = "building",
                                !.calls = 1,
                                !.visited = fresh \cup {TermId(interface)},
                                !.stack = << Frame(interface, 0) >>]

\* one step of a running trace_from_interface call: a recursive call, a
\* return to the caller, or the return of the request
TreeStep(r) ==
    LET top == r.stack[Len(r.stack)]
    IN  IF top.todo # <<>>
        THEN LET term == Head(top.todo)
                 rest == [r.stack EXCEPT ![Len(r.stack)].todo = Tail(top.todo)]
             IN  IF Unreadable(term)
                 THEN [r EXCEPT !.pc = "done", !.calls = @ + 1, !.stack = <<>>,
                                !.result = ErrTree("record unreadable")]
                 ELSE IF Pruned(term, r.visited, ChildDepth(top.node.depth), r.max_depth)
                 THEN [r EXCEPT !.calls = @ + 1, !.stack = rest]
                 ELSE [r EXCEPT !.calls = @ + 1,
                                !.visited = @ \cup {TermId(term)},
                                !.stack = Append(rest, Frame(term, ChildDepth(top.node.depth)))]
        ELSE IF Len(r.stack) > 1
        THEN LET below == SubSeq(r.stack, 1, Len(r.stack) - 1)
             IN  [r EXCEPT !.stack =
                    [below EXCEPT ![Len(below)].node.children = Append(@, top.node)]]
        ELSE [r EXCEPT !.pc = "done", !.stack = <<>>,
                       !.result =
                         [tree |-> top.node,
                          metadata |-> [start_device |-> r.device_name,
                                        start_interface |-> r.interface_name,
                                        total_nodes |-> count_nodes(top.node),
                                        total_cables |-> Cardinality(count_cables(top.node)),
                                        max_depth |-> r.max_depth]]]

\* the locals of a trace_devices_connection call before its first round
TraceStart(s, t, m) ==
    LET r == [kind |-> "trace", pc |-> "done",
              source_device |-> s, target_device |-> t, max_iterations |-> m,
              iteration |-> 0,
              source_frontier |-> <<s>>, target_frontier |-> <<t>>,
              source_visited |-> EmptyDict, target_visited |-> EmptyDict,
              source_paths |-> Put(EmptyDict, s, <<>>),
              target_paths |-> Put(EmptyDict, t, <<>>),
              new_source_devices |-> <<>>, result |-> NoResult,
              began |-> "alone"]
    IN  IF ~nb THEN [r EXCEPT !.result = ErrUnavailable]
        ELSE IF s \in failing \/ t \in failing
        THEN [r EXCEPT !.result = ErrTrace("lookup failed")]
        ELSE IF EndpointError(s, t) # NoResult
        THEN [r EXCEPT !.result = EndpointError(s, t)]
        ELSE [r EXCEPT !.pc = "round"]

\* one step of a running trace_devices_connection call: a half round, or the
\* return after the loop
TraceStep(r) ==
    IF r.pc = "round" /\ r.iteration < r.max_iterations
    THEN LET ex == _expand_frontier(r.source_frontier, r.source_visited, r.source_paths)
             intersection == _find_intersection(ex.new_devices, r.target_visited)
             e == [r EXCEPT !.source_visited = ex.visited,
                            !.source_paths = ex.paths,
                            !.new_source_devices = ex.new_devices]
         IN  IF ex.raised
             THEN [e EXCEPT !.pc = "done", !.result = ErrTrace("lookup failed")]
             ELSE IF intersection # None
             THEN [e EXCEPT !.pc = "done",
                            !.result = FoundResult(intersection, ex.visited, r.target_visited)]
             ELSE [e EXCEPT !.pc = "target"]
    ELSE IF r.pc = "target"
    THEN LET ex == _expand_frontier(r.target_frontier, r.target_visited, r.target_paths)
             intersection == _find_intersection(ex.new_devices, r.source_visited)
             e == [r EXCEPT !.target_visited = ex.visited,
                            !.target_paths = ex.paths]
         IN  IF ex.raised
             THEN [e EXCEPT !.pc = "done", !.result = ErrTrace("lookup failed")]
             ELSE IF intersection # None
             THEN [e EXCEPT !.pc = "done",
                            !.result = FoundResult(intersection, r.source_visited, ex.visited)]
             ELSE [e EXCEPT !.source_frontier = r.new_source_devices,
                            !.target_frontier = ex.new_devices,
                            !.iteration = @ + 1,
                            !.pc = IF Exhausted(r.new_source_devices, ex.new_devices)
                                   THEN "exhausted" ELSE "round"]
    ELSE [r EXCEPT !.pc = "done",
                   !.result =
                     [error |-> <<"No path found between '", r.source_device, "' and '",
                                  r.target_device, "' after ", r.max_iterations,
                                  " iterations">>,
                      source_devices_explored |-> Cardinality(DOMAIN r.source_visited),
                      target_devices_explored |-> Cardinality(DOMAIN r.target_visited)]]

\* a request run from its start to its return with nothing in between
RECURSIVE RunAlone(_)
RunAlone(r) ==
    IF r.pc = "done" THEN r.result
    ELSE RunAlone(IF r.kind = "tree" THEN TreeStep(r) ELSE TraceStep(r))

\* the devices and the interface the concurrent requests are made for
ConcDevices == {"X", "Y"}
ConcInterface == "eth0"

\* the first request, a trace between two devices
ConcTraceDevicesConnection ==
    /\ tr_pc = "idle"
    /\ tree_pc = "idle"
    /\ gc_pc = "idle"
    /\ \E s \in ConcDevices, t \in ConcDevices : StartTrace(s, t, DefaultMaxIterations)
    /\ UNCHANGED << refreshVars, invVars, cableVars, other, treeVars, prev >>

\* the first request, a tree from an interface
ConcTraceFromInterface ==
    /\ tree_pc = "idle"
    /\ tr_pc = "idle"
    /\ gc_pc = "idle"
    /\ \E d \in ConcDevices : StartTree(d, ConcInterface, DefaultMaxDepth)
    /\ UNCHANGED << refreshVars, invVars, cableVars, other, traceVars >>

\* where the first request stands: not made, underway, or returned
FirstRequest ==
    IF tr_pc = "idle" /\ tree_pc = "idle" THEN "idle"
    ELSE IF tr_pc = "done" \/ tree_pc = "done" THEN "done"
    ELSE "underway"

\* the second request arrives, at any point of the first; began records the
\* point
OtherStart ==
    /\ other.pc = "idle"
    /\ \/ \E d \in ConcDevices :
            other' = [TreeStart(d, ConcInterface, DefaultMaxDepth, visited_terminations)
                        EXCEPT !.began = FirstRequest]
       \/ \E s \in ConcDevices, t \in ConcDevices :
            other' = [TraceStart(s, t, DefaultMaxIterations)
                        EXCEPT !.began = FirstRequest]
    /\ UNCHANGED << refreshVars, invVars, traceVars, treeVars, cableVars, lookups >>

\* the second request takes its next step
OtherStep ==
    /\ other.pc \notin {"idle", "done"}
    /\ other' = IF other.kind = "tree" THEN TreeStep(other) ELSE TraceStep(other)
    /\ UNCHANGED << refreshVars, invVars, traceVars, treeVars, cableVars, lookups >>

(***************************************************************************)
(* Startup refresh of the cached reference data                            *)
(***************************************************************************)
\* the keys of the resources dict of update_all_resources
ResourceNames == {"sites", "device_types", "device_roles", "manufacturers"}

\* the days a start can fall on, counted from the day of the last update
Days == 0 .. 1

\* the failures one start can meet: none, or one resource type
Failures == {{}} \cup {{r} : r \in ResourceNames}

\* a resource file as save_resource_file writes it
ResourceFile(filename, data, day) ==
    [metadata |-> [count |-> Len(data), last_updated |-> day,
                   resource_type |-> filename],
     data |-> data]

\* the file an earlier start left in the cache, and the records the inventory
\* holds today
CachedFile(r) == ResourceFile(r, << [id |-> 1, name |-> "cached"] >>, 0)
InventoryRecords(r) == << [id |-> 1, name |-> "cached"], [id |-> 2, name |-> "added"] >>

\* should_update_resources of main.py: a day or more since the last update
should_update_resources(today) == today - last_update >= 1

\* fetch_sites and its three siblings: the records, or [] when the call raises
fetch(r, raising) == IF r \in raising THEN <<>> ELSE InventoryRecords(r)

\* save_resource_file: TRUE and the file written, or FALSE and the file as
\* it was when opening it raises
save_resource_file(r, data, day, unwritable) ==
    IF r \in unwritable
    THEN [success |-> FALSE, file |-> resource_files[r]]
    ELSE [success |-> TRUE, file |-> ResourceFile(r, data, day)]

\* update_all_resources: every type is fetched and saved in turn
update_all_resources(day, raising, unwritable) ==
    [r \in ResourceNames |-> save_resource_file(r, fetch(r, raising), day, unwritable)]

\* update_resources_if_needed, run once when the server starts.  The refresh
\* touches the cache files and the timestamp only, and the request handlers
\* touch neither, so the two are followed apart: a behaviour follows the
\* refresh of a start or the requests the server then answers
UpdateResourcesIfNeeded ==
    /\ refresh_pc = "start"
    /\ tr_pc = "idle" /\ tree_pc = "idle" /\ gc_pc = "idle" /\ other = IdleRequest
    /\ refresh_pc' = "done"
    /\ \E today \in Days, raising \in Failures, unwritable \in Failures,
          updater_raises \in BOOLEAN :
          /\ now' = today
          /\ IF ~should_update_resources(today)
             THEN UNCHANGED << resource_files, last_update, fetch_errors, update_results >>
             ELSE IF updater_raises
             THEN UNCHANGED << resource_files, last_update, fetch_errors, update_results >>
             ELSE LET saved == update_all_resources(today, raising, unwritable)
                      results == [r \in ResourceNames |-> saved[r].success]
                      success_count == Cardinality({r \in ResourceNames : results[r]})
                  IN  /\ fetch_errors' = raising
                      /\ resource_files' = [r \in ResourceNames |-> saved[r].file]
                      /\ update_results' = results
                      /\ last_update' = IF success_count = Cardinality(ResourceNames)
                                        THEN today ELSE last_update
    /\ UNCHANGED << invVars, traceVars, treeVars, cableVars, lookups, other >>

Init ==
    /\ refresh_pc = "start"
    /\ resource_files = [r \in ResourceNames |-> CachedFile(r)]
    /\ last_update = 0
    /\ now = 0
    /\ fetch_errors = {}
    /\ update_results = [r \in ResourceNames |-> FALSE]
    /\ nb \in BOOLEAN
    /\ cables \in Inventories
    /\ failing \in {{}} \cup {{d} : d \in Devices}
    /\ ~nb => failing = {}
    /\ tr_pc = "idle"
    /\ source_device = None
    /\ target_device = None
    /\ max_iterations = 0
    /\ iteration = 0
    /\ source_frontier = <<>>
    /\ target_frontier = <<>>
    /\ source_visited = EmptyDict
    /\ target_visited = EmptyDict
    /\ source_paths = EmptyDict
    /\ target_paths = EmptyDict
    /\ new_source_devices = <<>>
    /\ listings = 0
    /\ result = NoResult
    /\ prev = NoResult
    /\ tree_pc = "idle"
    /\ device_name = None
    /\ interface_name = None
    /\ max_depth = 0
    /\ visited_terminations = {}
    /\ stack = <<>>
    /\ calls = 0
    /\ tree_result = NoResult
    /\ gc_pc = "idle"
    /\ cable_id = NoId
    /\ gc_raised = FALSE
    /\ cable_result = NoResult
    /\ lookups = 0
    /\ other = IdleRequest

Next ==
    \/ TraceDevicesConnection
    \/ TraceSwapped
    \/ SourceStep
    \/ TargetStep
    \/ NoPath
    \/ TraceFromInterface
    \/ BuildCall
    \/ BuildReturn
    \/ TreeFinish
    \/ GetCable
    \/ UpdateResourcesIfNeeded

Spec == Init /\ [][Next]_vars

\* the tree tracer alone; a started request keeps running until it returns
NextTree ==
    \/ TraceFromInterface
    \/ BuildCall
    \/ BuildReturn
    \/ TreeFinish

TreeSpec == Init /\ [][NextTree]_vars /\ WF_vars(BuildCall \/ BuildReturn \/ TreeFinish)

\* two requests side by side on an inventory that answers and does not change
InitConc == Init /\ nb /\ failing = {}

NextConc ==
    \/ ConcTraceDevicesConnection
    \/ SourceStep
    \/ TargetStep
    \/ NoPath
    \/ ConcTraceFromInterface
    \/ BuildCall
    \/ BuildReturn
    \/ TreeFinish
    \/ OtherStart
    \/ OtherStep

ConcSpec == InitConc /\ [][NextConc]_vars

(***************************************************************************)
(* What the inventory physically holds, for stating the claims             *)
(***************************************************************************)
\* two devices share a cable
Cabled(d1, d2) ==
    \E c \in cables : \E t1, t2 \in TermsOf(c) :
        /\ t1 # t2
        /\ Rec(t1).device = d1
        /\ Rec(t2).device = d2

\* devices within n cable segments of the devices in ds
RECURSIVE Within(_, _)
Within(ds, n) ==
    IF n = 0 THEN ds
    ELSE Within(ds \cup {d \in Devices : \E e \in ds : Cabled(e, d)}, n - 1)

Joined(d1, d2) == d2 \in Within({d1}, Cardinality(Devices))

\* least number of cable segments between two joined devices
Distance(d1, d2) ==
    CHOOSE n \in 0..Cardinality(Devices) :
        /\ d2 \in Within({d1}, n)
        /\ \A m \in 0..(n - 1) : d2 \notin Within({d1}, m)

IsSuccess(r) == DOMAIN r = {"path", "meeting_point", "total_hops"}
IsNoPath(r) == DOMAIN r = {"error", "source_devices_explored", "target_devices_explored"}
IsError(r) == DOMAIN r = {"error"}

\* every record of the inventory can be read
Readable == \A c \in cables : \A t \in TermsOf(c) : ~Unreadable(t)

\* a trace request has returned, with the connection up, no failing lookup
\* and no unreadable record
TraceReturned == tr_pc = "done" /\ nb /\ failing = {} /\ Readable

(***************************************************************************)
(* C1: with a single straight cable from X/eth0 to Y/eth0,                 *)
(* trace_devices_connection(X, Y) returns success with total_hops = 1 and  *)
(* a path of exactly one hop carrying that cable's id.                     *)
(***************************************************************************)
StraightCable == Cable(1, <<"X_eth0">>, <<"Y_eth0">>)

C1_StraightCableOneHop ==
    ( /\ TraceReturned
      /\ cables = {StraightCable}
      /\ source_device = "X" /\ target_device = "Y"
      /\ max_iterations = DefaultMaxIterations )
    => /\ IsSuccess(result)
       /\ result.total_hops = 1
       /\ Len(result.path) = 1
       /\ result.path[1].cable_id = StraightCable.id

(***************************************************************************)
(* C2: for every existing device D, trace_devices_connection(D, D) returns *)
(* the trivial zero-hop success: empty path and total_hops = 0.            *)
(***************************************************************************)
C2_SelfTraceZeroHops ==
    ( /\ TraceReturned
      /\ source_device \in Devices
      /\ target_device = source_device
      /\ max_iterations = DefaultMaxIterations )
    => /\ IsSuccess(result)
       /\ result.path = <<>>
       /\ result.total_hops = 0

(***************************************************************************)
(* C3: for existing devices joined by a chain of cables that the rounds    *)
(* can cover, the trace returns a success result; "No path found" comes    *)
(* back only when no chain exists.                                         *)
(***************************************************************************)
C3_JoinedDevicesAreTraced ==
    ( /\ TraceReturned
      /\ source_device \in Devices /\ target_device \in Devices
      /\ max_iterations = DefaultMaxIterations )
    => /\ Joined(source_device, target_device) => IsSuccess(result)
       /\ IsNoPath(result) => ~Joined(source_device, target_device)

(***************************************************************************)
(* C4: a success result's total_hops is the least number of cable segments *)
(* on any cable path between source and target.                            *)
(***************************************************************************)
C4_TotalHopsIsShortest ==
    (TraceReturned /\ IsSuccess(result))
    => result.total_hops = Distance(source_device, target_device)

(***************************************************************************)
(* C5: when a path is found for (A, B), the traces of (A, B) and (B, A) on *)
(* the same inventory both succeed and report equal total_hops.            *)
(***************************************************************************)
C5_SwapSymmetry ==
    ( /\ TraceReturned
      /\ prev # NoResult
      /\ IsSuccess(prev.result) \/ IsSuccess(result) )
    => /\ IsSuccess(prev.result)
       /\ IsSuccess(result)
       /\ prev.result.total_hops = result.total_hops

(***************************************************************************)
(* C6: for two existing devices with no cable path between them the trace  *)
(* returns error with both explored counts, at least one of them nonzero.  *)
(* Original statement: for every integer max_iterations.                   *)
(***************************************************************************)
DisconnectedReturned ==
    /\ TraceReturned
    /\ source_device \in Devices /\ target_device \in Devices
    /\ ~Joined(source_device, target_device)

ExploredSomething ==
    /\ IsNoPath(result)
    /\ result.source_devices_explored > 0 \/ result.target_devices_explored > 0

C6_Original_AnyMaxIterations == DisconnectedReturned => ExploredSomething

\* C6 as amended: the same for every max_iterations of at least 1
C6_DisconnectedReportsCounts ==
    (DisconnectedReturned /\ max_iterations >= 1) => ExploredSomething

C6_Witness ==
    /\ DisconnectedReturned
    /\ max_iterations >= 1
    /\ cables # {}
    /\ IsNoPath(result)
    /\ result.source_devices_explored = 1

(***************************************************************************)
(* C7: if source_device or target_device does not resolve, the trace       *)
(* returns a not-found error naming the missing device and never expands:  *)
(* no cabled-interface listing is issued, both visited maps stay empty.    *)
(***************************************************************************)
C7_UnresolvedEndpointStopsAtOnce ==
    ( /\ tr_pc # "idle" /\ nb /\ failing = {}
      /\ source_device \notin Devices \/ target_device \notin Devices )
    => /\ tr_pc = "done"
       /\ IsError(result)
       /\ Len(result.error) = 3
       /\ result.error[1] \in {"Source device '", "Target device '"}
       /\ result.error[2] \in {source_device, target_device} \ Devices
       /\ result.error[3] = "' not found"
       /\ listings = 0
       /\ DOMAIN source_visited = {}
       /\ DOMAIN target_visited = {}

C7_Witness ==
    /\ tr_pc = "done" /\ nb /\ failing = {}
    /\ source_device = "X" /\ target_device = Ghost
    /\ cables # {}
    /\ result = [error |-> <<"Target device '", Ghost, "' not found">>]

(***************************************************************************)
(* C8: with X/eth0 cabled to PP1/front1, front1 paired with rear1, and     *)
(* PP1/rear1 cabled to Y/eth0, trace_from_interface(X, eth0) returns a     *)
(* tree whose root has a PP1 child under which a Y node is a grandchild of *)
(* the root, and metadata.total_cables = 2.                                *)
(***************************************************************************)
PatchPanelChain ==
    { Cable(2, <<"X_eth0">>, <<"PP1_front1">>),
      Cable(3, <<"PP1_rear1">>, <<"Y_eth0">>) }

\* a tree request has returned, with the connection up, no failing lookup
\* and no unreadable record
TreeReturned == tree_pc = "done" /\ nb /\ failing = {} /\ Readable

IsTree(r) == DOMAIN r = {"tree", "metadata"}

C8_PatchPanelTree ==
    ( /\ TreeReturned
      /\ cables = PatchPanelChain
      /\ device_name = "X" /\ interface_name = "eth0"
      /\ max_depth >= 3 )
    => /\ IsTree(tree_result)
       /\ LET root == tree_result.tree
          IN  /\ root.device = "X" /\ root.interface = "eth0"
              /\ \E i \in 1..Len(root.children) :
                    /\ root.children[i].device = "PP1"
                    /\ \E j \in 1..Len(root.children[i].children) :
                          root.children[i].children[j].device = "Y"
       /\ tree_result.metadata.total_cables = 2

C8_Witness ==
    /\ TreeReturned
    /\ cables = PatchPanelChain
    /\ device_name = "X" /\ interface_name = "eth0"
    /\ max_depth = DefaultMaxDepth
    /\ IsTree(tree_result)
    /\ tree_result.metadata.total_nodes = 4

(***************************************************************************)
(* C9: trace_from_interface on an existing interface without a cable       *)
(* returns a message and a single-node tree (the start interface, no       *)
(* cable id, no children), no error field, and builds no tree node.        *)
(***************************************************************************)
UncabledStart ==
    /\ TreeReturned
    /\ FindInterface(device_name, interface_name) # {}
    /\ \A t \in FindInterface(device_name, interface_name) : ~HasCable(t)

C9_UncabledInterfaceMessage ==
    UncabledStart
    => /\ DOMAIN tree_result = {"message", "tree"}
       /\ tree_result.tree.device = device_name
       /\ tree_result.tree.interface = interface_name
       /\ tree_result.tree.cable_id = NoId
       /\ tree_result.tree.children = <<>>
       /\ calls = 0
       /\ stack = <<>>

C9_Witness ==
    /\ UncabledStart
    /\ cables # {}
    /\ device_name = "Z" /\ interface_name = "eth0"
    /\ "message" \in DOMAIN tree_result

(***************************************************************************)
(* C10: trace_from_interface terminates on every inventory, cyclic wiring  *)
(* included, for every max_depth: the number of _build_tree_node calls     *)
(* stays within a bound that depends on the inventory only, never on       *)
(* max_depth, and a started build always returns.                          *)
(***************************************************************************)
RECURSIVE SumChildCalls(_)
SumChildCalls(ts) ==
    IF ts = <<>> THEN 0 ELSE Len(ChildCalls(Head(ts))) + SumChildCalls(Tail(ts))

\* one call per termination record and per recursion site of a record
CallBound == 1 + SumChildCalls(AllTerms)

C10_TreeBuildTerminates ==
    /\ [](calls <= CallBound /\ Len(stack) <= Len(AllTerms))
    /\ (tree_pc = "building") ~> (tree_pc = "done")

\* a cross-connected pair of patch panels, traced without a depth limit in reach
C10_Witness ==
    /\ TreeReturned
    /\ cables = { Cable(8, <<"PP1_rear1">>, <<"PP2_rear1">>),
                  Cable(9, <<"X_eth0">>, <<"PP1_front1", "PP2_front1">>) }
    /\ max_depth = DefaultMaxDepth
    /\ IsTree(tree_result)
    /\ calls > tree_result.metadata.total_nodes

(***************************************************************************)
(* Claims on the tree's nodes, the error results and the helpers           *)
(***************************************************************************)
\* the identity a node dict stands for, as the visited set spells it
NodeId(node) ==
    (IF node.device # None THEN node.device ELSE "unknown")
    \o "_" \o
    (IF node.interface # None THEN node.interface ELSE "unknown")

\* the identities of the nodes of a tree, parent before children
RECURSIVE NodeIds(_)
NodeIds(node) ==
    << NodeId(node) >> \o
    Concat([i \in 1..Len(node.children) |-> NodeIds(node.children[i])])

\* C11: in every tree trace_from_interface returns, each termination identity
\* (device name and port name) is on at most one node of the whole tree
C11_IdentityOnOneNode ==
    (tree_pc = "done" /\ IsTree(tree_result)) =>
        LET ids == NodeIds(tree_result.tree)
        IN  Cardinality(Range(ids)) = Len(ids)

\* a fan-out cable: the second peer is met again from the first and pruned
C11_Witness ==
    /\ TreeReturned
    /\ cables = { Cable(5, <<"X_eth0">>, <<"Y_eth0", "Z_eth0">>) }
    /\ device_name = "X" /\ interface_name = "eth0"
    /\ max_depth = DefaultMaxDepth
    /\ IsTree(tree_result)
    /\ Len(NodeIds(tree_result.tree)) = 3
    /\ calls > 3

IsCableInfo(r) == DOMAIN r = {"cable_id", "cable_type", "status", "terminations"}
IsMessage(r) == DOMAIN r = {"message", "tree"}

\* C12: get_cable with an id the inventory has no cable for returns an error
\* object whose text holds the requested id
C12_UnknownCableIdIsNamed ==
    ( /\ gc_pc = "done" /\ nb /\ ~gc_raised
      /\ \A c \in cables : c.id # cable_id ) =>
        cable_result = [error |-> <<"Cable with ID ", cable_id, " not found">>]

\* the inventory holds cable 1 and the request asks for cable 2
C12_Witness ==
    /\ gc_pc = "done" /\ nb /\ ~gc_raised
    /\ cables = {StraightCable}
    /\ cable_id = 2
    /\ IsError(cable_result)
    /\ cable_result.error[2] = 2

\* C13: with the connection handle unavailable, each of the three tools returns
\* the same 'connection not available' error and issues no inventory lookup
C13_UnavailableSameErrorNoLookup ==
    ~nb =>
        LET unavailable == [error |-> <<"NetBox connection not available">>]
        IN  /\ tr_pc = "done" => result = unavailable /\ lookups = 0 /\ listings = 0
            /\ tree_pc = "done" => tree_result = unavailable /\ lookups = 0 /\ calls = 0
            /\ gc_pc = "done" => cable_result = unavailable /\ lookups = 0

\* get_cable is asked for a cable the inventory holds, without a connection
C13_Witness ==
    /\ ~nb
    /\ gc_pc = "done"
    /\ \E c \in cables : c.id = cable_id
    /\ IsError(cable_result)
    /\ lookups = 0

\* C14: whatever the input and whatever the inventory does, lookups that raise
\* included, a returned call of any of the three tools holds a structured
\* result (success, message or error), never an exception
C14_NoExceptionCrossesTheBoundary ==
    /\ tr_pc = "done" => IsSuccess(result) \/ IsNoPath(result) \/ IsError(result)
    /\ tree_pc = "done" => IsTree(tree_result) \/ IsMessage(tree_result) \/ IsError(tree_result)
    /\ gc_pc = "done" => IsCableInfo(cable_result) \/ IsError(cable_result)

\* a lookup raised in the middle of a search, after a listing had been issued
C14_Witness ==
    /\ tr_pc = "done" /\ nb
    /\ failing # {}
    /\ source_device \notin failing /\ target_device \notin failing
    /\ listings > 0
    /\ IsError(result)
    /\ result.error[1] = "Failed to trace connection: "

\* C16: a lookup that fails during a trace only drops that branch and the
\* search goes on, so the request is not given up with the lookup's failure
C16_FailedLookupOnlyDropsItsBranch ==
    ( /\ tr_pc = "done" /\ nb /\ Readable
      /\ failing # {}
      /\ source_device \in Devices \ failing
      /\ target_device \in Devices \ failing ) =>
        result # ErrTrace("lookup failed")

\* the start interface of the tree request exists and has a cable
CabledStart ==
    /\ FindInterface(device_name, interface_name) # {}
    /\ \A t \in FindInterface(device_name, interface_name) : HasCable(t)

\* one node of the tree carries an error field
RECURSIVE HasErrorNode(_)
HasErrorNode(node) ==
    \/ "error" \in DOMAIN node
    \/ \E i \in 1..Len(node.children) : HasErrorNode(node.children[i])

\* C17: a termination record that cannot be processed leaves the request with
\* its tree (or termination list), the other items intact and the offending
\* item carrying an error field, instead of one top-level error
C17_UnreadableRecordKeepsTheRest ==
    /\ ( /\ tree_pc = "done" /\ nb /\ failing = {}
         /\ CabledStart /\ max_depth >= 2
         /\ \E t \in FindInterface(device_name, interface_name) :
               \E u \in TermsOf(CableOf(t)) : Unreadable(u) ) =>
           /\ IsTree(tree_result)
           /\ HasErrorNode(tree_result.tree)
    /\ ( /\ gc_pc = "done" /\ nb /\ ~gc_raised
         /\ \E c \in cables : c.id = cable_id /\ \E t \in TermsOf(c) : Unreadable(t) ) =>
           /\ IsCableInfo(cable_result)
           /\ \E i \in 1..Len(cable_result.terminations) :
                 "error" \in DOMAIN cable_result.terminations[i]

\* C18: reaching max_depth only cuts the branch: for every max_depth and every
\* cabled start interface the call returns a tree with metadata, never an error
C18_DepthLimitNeverAnError ==
    (TreeReturned /\ CabledStart) => IsTree(tree_result)

\* the device at which the source half of the running round meets the target
\* side, None when that half raises or meets nothing
SourceMeeting ==
    IF tr_pc = "round" /\ iteration < max_iterations
    THEN LET ex == _expand_frontier(source_frontier, source_visited, source_paths)
         IN  IF ex.raised THEN None
             ELSE _find_intersection(ex.new_devices, target_visited)
    ELSE None

\* the same for the target half
TargetMeeting ==
    IF tr_pc = "target"
    THEN LET ex == _expand_frontier(target_frontier, target_visited, target_paths)
         IN  IF ex.raised THEN None
             ELSE _find_intersection(ex.new_devices, source_visited)
    ELSE None

\* C19: whenever the new frontier of one side holds a device the other side
\* has visited, the call stops in that round with a success result built for
\* that device, never an error result
C19_MeetingReturnsSuccess ==
    [][ /\ SourceMeeting # None =>
             /\ tr_pc' = "done"
             /\ IsSuccess(result')
             /\ result'.meeting_point.device = SourceMeeting
        /\ TargetMeeting # None =>
             /\ tr_pc' = "done"
             /\ IsSuccess(result')
             /\ result'.meeting_point.device = TargetMeeting ]_vars

\* C20: _get_connected_terminations(t) is empty when t has no cable, and
\* otherwise the terminations of t's cable, A side then B side, without t,
\* whatever the shape of the cable
C20_ConnectedAreTheOthersOnTheCable ==
    \A t \in TermKeys :
        ~Unreadable(t) =>
            _get_connected_terminations(t) =
                IF HasCable(t)
                THEN SelectSeq(CableOf(t).a_terminations \o CableOf(t).b_terminations,
                               LAMBDA term : term # t)
                ELSE <<>>

\* C15: concurrent trace requests share no visited, frontier or path state:
\* under any interleaving of two requests over an unchanged inventory, each
\* request returns the result it returns when it runs alone
C15_InterleavedRequestsReturnAsAlone ==
    /\ tr_pc = "done" =>
          result = RunAlone(TraceStart(source_device, target_device, max_iterations))
    /\ tree_pc = "done" =>
          tree_result = RunAlone(TreeStart(device_name, interface_name, max_depth, {}))
    /\ (other.pc = "done" /\ other.kind = "tree") =>
          other.result = RunAlone(TreeStart(other.device_name, other.interface_name,
                                            other.max_depth, {}))
    /\ (other.pc = "done" /\ other.kind = "trace") =>
          other.result = RunAlone(TraceStart(other.source_device, other.target_device,
                                             other.max_iterations))

\* two tree requests from the same interface of a patch-panel chain; the
\* second made its calls while the first was still building, both returned
C15_Witness ==
    /\ cables = PatchPanelChain
    /\ tree_pc = "done" /\ IsTree(tree_result)
    /\ other.pc = "done" /\ other.kind = "tree"
    /\ other.device_name = device_name
    /\ IsTree(other.result)
    /\ other.result.metadata.total_nodes = 4
    /\ other.began = "underway"

(***************************************************************************)
(* Claims on the helpers, the tree's shape and the path                    *)
(***************************************************************************)
\* the ports the inventory pairs with a termination inside its patch panel
PairedWith(c) ==
    IF Rec(c).kind = "front" THEN {Rec(c).rear_port}
    ELSE IF Rec(c).kind = "rear" THEN Range(Rec(c).front_ports)
    ELSE {}

\* C21: _get_next_terminations(t) holds every element of
\* _get_connected_terminations(t), the paired rear port of each connected front
\* port and the paired front ports of each connected rear port, and nothing
\* else; it is empty when t has no cable
C21_NextAreConnectedAndPaired ==
    Readable =>
        \A t \in TermKeys :
            LET connected == Range(_get_connected_terminations(t))
            IN  /\ Range(_get_next_terminations(t)) =
                     connected \cup UNION { PairedWith(c) : c \in connected }
                /\ ~HasCable(t) => _get_next_terminations(t) = <<>>

\* a trace from X has expanded over a fan-out cable that ends on a front port,
\* whose rear port is among the next terminations of the other peer
C21_Witness ==
    /\ TraceReturned
    /\ Cable(6, <<"X_eth1">>, <<"PP1_front1", "Z_eth0">>) \in cables
    /\ source_device = "X"
    /\ listings > 0
    /\ _get_next_terminations("Z_eth0") = <<"X_eth1", "PP1_front1", "PP1_rear1">>

\* the class the populated relations of a record give it
ClassOf(t) ==
    IF Rec(t).kind = "front" THEN "front_port"
    ELSE IF Rec(t).kind = "rear" THEN "rear_port"
    ELSE IF Rec(t).kind = "interface" THEN "interface"
    ELSE "unknown"

\* C22: classification never fails and follows the populated relations of the
\* record: a rear-port reference gives front_port, a front-ports collection
\* gives rear_port, only device and name give interface, anything else
\* unknown; so get_cable reports each termination of a cable under that class
C22_ClassificationFollowsRelations ==
    (gc_pc = "done" /\ nb /\ ~gc_raised /\ Readable /\ IsCableInfo(cable_result)) =>
        LET cable == CHOOSE c \in cables : c.id = cable_id
            terms == cable.a_terminations \o cable.b_terminations
        IN  \A i \in 1..Len(cable_result.terminations) :
                cable_result.terminations[i].type = ClassOf(terms[i])

\* the cable_id values of the nodes of a tree, parent before children
RECURSIVE NodeCables(_)
NodeCables(node) ==
    << node.cable_id >> \o
    Concat([i \in 1..Len(node.children) |-> NodeCables(node.children[i])])

\* C23: in every tree result, metadata.total_nodes is the number of nodes of
\* the returned tree, root included, and metadata.total_cables the number of
\* distinct non-null cable_id values over its nodes
C23_MetadataCountsTheTree ==
    (tree_pc = "done" /\ IsTree(tree_result)) =>
        /\ tree_result.metadata.total_nodes = Len(NodeIds(tree_result.tree))
        /\ tree_result.metadata.total_cables =
             Cardinality(Range(NodeCables(tree_result.tree)) \ {NoId})

\* the patch-panel chain seen from Y: four nodes on two cables
C23_Witness ==
    /\ TreeReturned
    /\ cables = PatchPanelChain
    /\ device_name = "Y" /\ interface_name = "eth0"
    /\ IsTree(tree_result)
    /\ Len(NodeIds(tree_result.tree)) = 4
    /\ tree_result.metadata.total_cables = 2

\* the node and everything below it carry the depths of a tree rooted at d
RECURSIVE DepthsFrom(_, _, _)
DepthsFrom(node, d, limit) ==
    /\ node.depth = d
    /\ d < limit
    /\ \A i \in 1..Len(node.children) : DepthsFrom(node.children[i], d + 1, limit)

\* C24: in every tree built, the root has depth 0, every child (a termination
\* on the cable or a port paired with one) has its parent's depth + 1, and
\* every node has a depth below max_depth
C24_DepthsFollowTheTree ==
    (tree_pc = "done" /\ IsTree(tree_result)) =>
        DepthsFrom(tree_result.tree, 0, max_depth)

\* the patch-panel chain cut at max_depth 2: the front port and its paired
\* rear port are both children of the root, the far interface is cut off
C24_Witness ==
    /\ TreeReturned
    /\ cables = PatchPanelChain
    /\ device_name = "X" /\ interface_name = "eth0"
    /\ max_depth = 2
    /\ IsTree(tree_result)
    /\ Len(tree_result.tree.children) = 2
    /\ Len(NodeIds(tree_result.tree)) = 3

\* C25: in every success result of trace_devices_connection, the number of
\* hops in path equals total_hops
C25_PathLengthIsTotalHops ==
    (TraceReturned /\ IsSuccess(result)) => Len(result.path) = result.total_hops

\* C26: the meeting point is the first overlap of the two searches: whenever
\* the trace goes on to another round, no device is in both source_visited and
\* target_visited at the end of the round just finished
C26_NoOverlapWhenGoingOn ==
    ( /\ tr_pc = "round" /\ nb /\ failing = {} /\ Readable
      /\ iteration >= 1
      /\ iteration < max_iterations ) =>
        DOMAIN source_visited \cap DOMAIN target_visited = {}

\* C27: an endpoint without cabled interfaces gives its side an empty new
\* frontier and does not stop the search: the loop ends early only when both
\* new frontiers are empty in one round, so a trace that ends without a path
\* has either run max_iterations rounds or left both frontiers empty
C27_LoopEndsOnlyWhenBothSidesAreEmpty ==
    /\ tr_pc = "exhausted" => source_frontier = <<>> /\ target_frontier = <<>>
    /\ (TraceReturned /\ IsNoPath(result)) =>
          \/ iteration >= max_iterations
          \/ source_frontier = <<>> /\ target_frontier = <<>>

\* the target Y has no cable; the source X went on after round 0 and expanded
\* the two devices of its fan-out cable in rounds 1 and 2 before the search
\* ran dry
C27_Witness ==
    /\ TraceReturned
    /\ cables = { Cable(6, <<"X_eth1">>, <<"PP1_front1", "Z_eth0">>) }
    /\ source_device = "X" /\ target_device = "Y"
    /\ max_iterations = DefaultMaxIterations
    /\ IsNoPath(result)
    /\ result.source_devices_explored = 3
    /\ result.target_devices_explored = 1
    /\ iteration = 3

\* path p walks from device s to device t, each hop starting where the
\* previous one ended
IsWalk(p, s, t) ==
    /\ Len(p) > 0
    /\ p[1].device = s
    /\ \A i \in 1 .. Len(p) - 1 : p[i].next_device = p[i + 1].device
    /\ p[Len(p)].next_device = t

\* C28: in every success result of trace_devices_connection, path is a
\* connected walk from source to target: the first hop's device is
\* source_device, each hop's next_device is the following hop's device, and
\* the last hop's next_device is target_device
C28_PathIsAConnectedWalk ==
    (TraceReturned /\ IsSuccess(result)) =>
        IsWalk(result.path, source_device, target_device)

\* the terminations one level away from those of S: the other terminations
\* of each one's cable and the ports paired with them
OneLevel(S) ==
    UNION { Range(_get_next_terminations(t)) : t \in S }

\* the terminations within k levels of those of S
RECURSIVE WithinLevels(_, _)
WithinLevels(S, k) ==
    IF k <= 0 THEN S ELSE WithinLevels(S \cup OneLevel(S), k - 1)

\* C29: for a cabled start interface, every termination reachable from it in
\* fewer than max_depth levels (a level goes from a termination to another
\* termination on its cable or to the port paired with one) is a node of the
\* tree trace_from_interface returns
C29_ReachableTerminationsAreNodes ==
    (TreeReturned /\ CabledStart /\ max_depth >= 1) =>
        /\ IsTree(tree_result)
        /\ \A start \in FindInterface(device_name, interface_name) :
             \A t \in WithinLevels({start}, max_depth - 1) :
                TermId(t) \in Range(NodeIds(tree_result.tree))

\* C30: in the startup refresh, when fetching a resource type fails, the
\* cached file of that type is left as it was and the last-update timestamp
\* is not advanced, so that the next start updates again
C30_FailedFetchKeepsCacheAndTimestamp ==
    (refresh_pc = "done" /\ fetch_errors # {}) =>
        /\ \A r \in fetch_errors : resource_files[r] = CachedFile(r)
        /\ last_update = 0
        /\ should_update_resources(now)

====
